---- MODULE Spec2Model ----
(***************************************************************************)
(* Model of the DCF peer networking module (networking.js, the three       *)
(* revisions kept in src/unnamed/part_000) together with its callers in    *)
(* src/src/main.js and src/src/gemini.js.                                  *)
(*                                                                         *)
(* Revision 2 (part_000 lines 98-306) is the one main.js is written        *)
(* against (it alone exports validateConfig and monitorPerformance);       *)
(* revision 3 (lines 308-452) is the "enhanced error handling" variant.    *)
(* The variable draft records which revision the process has loaded.       *)
(*                                                                         *)
(* JavaScript runs every handler to completion, so one action is one       *)
(* handler run (a timer tick, an event callback, an IPC request, the       *)
(* continuation of an await).                                              *)
(***************************************************************************)
EXTENDS Integers, Sequences, FiniteSets, TLC

\* ------------------------------------------------------------------ bounds
MaxPeers == 2          \* distinct peer addresses the network can announce
MaxCalls == 1          \* sendToPeers invocations that may be in flight at once
MaxBrowsers == 2       \* discoverPeers invocations modelled
MaxInbound == 2        \* inbound messages kept in the router's record
FailureThreshold == 2  \* consecutive send failures the failure record counts up to

\* ------------------------------------------------- program constants
MAX_POOL_SIZE == 5
DEFAULT_INTERVAL == 30000   \* discoverPeers(interval = 30000), milliseconds
SCAN_WINDOW == 5000         \* setTimeout(() => browser.stop(), 5000)

\* ------------------------------------------------------------ value space
Undefined == "<undefined>"      \* the JavaScript value undefined
Null == "<null>"                \* the JavaScript value null
EmptyString == ""

AddressNames == <<"10.0.0.1:5000", "10.0.0.2:5000", "10.0.0.3:5000", "10.0.0.4:5000">>
Address == {AddressNames[i] : i \in 1..MaxPeers}
UnknownAddress == "10.9.9.9:5000"     \* an address nobody ever announces

\* --------------------------------------------------- JavaScript objects
\* An object is its own-property list in insertion order: <<key, value>> pairs.
Keys(obj) == {obj[i][1] : i \in 1..Len(obj)}

HasKey(obj, k) == k \in Keys(obj)

Get(obj, k) ==
  IF HasKey(obj, k)
    THEN LET i == CHOOSE j \in 1..Len(obj) : obj[j][1] = k IN obj[i][2]
    ELSE Undefined

\* obj[k] = v: an existing key keeps its position, a new key goes last.
SetKey(obj, k, v) ==
  IF HasKey(obj, k)
    THEN [i \in 1..Len(obj) |-> IF obj[i][1] = k THEN <<k, v>> ELSE obj[i]]
    ELSE Append(obj, <<k, v>>)

RECURSIVE Spread(_, _)
\* { ...target, ...source }: source's properties are assigned in order.
Spread(target, source) ==
  IF source = <<>> THEN target
  ELSE Spread(SetKey(target, Head(source)[1], Head(source)[2]), Tail(source))

\* A JSON text is modelled by what it denotes: the member list of an object,
\* the literal null, or a text that is no JSON at all.
ObjectText(members) == [kind |-> "object", members |-> members]
NullText == [kind |-> "null", members |-> <<>>]
MalformedText == [kind |-> "malformed", members |-> <<>>]

\* JSON.stringify of a flat object: properties whose value is undefined are
\* left out, the others are written in property order.
JSONstringify(obj) == ObjectText(SelectSeq(obj, LAMBDA p : p[2] # Undefined))

\* JSON.parse: throws SyntaxError on a malformed text, gives null for the
\* literal null, and otherwise rebuilds the object member by member.
JSONparse(text) ==
  [threw |-> text.kind = "malformed",
   isNull |-> text.kind = "null",
   obj |-> IF text.kind = "object" THEN Spread(<<>>, text.members) ELSE <<>>]

\* Truthiness test used by !x on the values that occur here.
Falsy(v) == v \in {Undefined, Null, EmptyString}

\* Default parameter value: used when the argument is undefined (not null).
DefaultArg(arg, dflt) == IF arg = Undefined THEN dflt ELSE arg

\* The envelope built by sendToPeers: JSON.stringify({ type, ...payload }).
Envelope(payload, type) == JSONstringify(Spread(<<<<"type", type>>>>, payload))


\* ------------------------------------------------------------------ state
VARIABLES
  draft,         \* revision of networking.js the process has loaded (2 or 3)
  silent,        \* peers whose server never invokes the SendMessage callback
  config,        \* dcf-config.json as parsed at module load
  pc,            \* position of main.js: "init", "loaded", "started", "failed"
  server,        \* "null", "binding" (bindAsync issued), "listening"
  bleListeners,  \* listeners installed on noble by CustomBLETransport.setup
  browsers,      \* mdns browsers created by discoverPeers, with their scan timer
  ads,           \* mdns advertisements started
  perfTimers,    \* setInterval timers installed by monitorPerformance
  clients,       \* the Map address -> client, in insertion order
  channelPool,   \* the module-level array of channels
  calls,         \* sendToPeers invocations
  logTail,       \* lines the last handler run wrote to network.log
  errorCount,    \* revision 3's error counter
  inbound,       \* what the SendMessage service did with the last messages
  failStreak     \* record of the run: consecutive failed sends per address

vars == <<draft, silent, config, pc, server, bleListeners, browsers, ads, perfTimers,
          clients, channelPool, calls, logTail, errorCount, inbound, failStreak>>

startupVars == <<config, pc, server, bleListeners, browsers, ads, perfTimers>>
fabricVars == <<clients, channelPool, calls>>

LogLine(text, address) == [line |-> text, address |-> address]

\* ------------------------------------------------ registry and channel pool
\* clients.has(address)
Has(cl, address) == \E i \in 1..Len(cl) : cl[i].address = address

\* clients.get(address), for a registered address
ClientOf(cl, address) ==
  LET i == CHOOSE j \in 1..Len(cl) : cl[j].address = address IN cl[i]

\* clients.set(address, client): Map keeps one entry per key, in insertion order
MapSet(cl, address, channel) ==
  IF Has(cl, address)
    THEN [i \in 1..Len(cl) |->
            IF cl[i].address = address
              THEN [address |-> address, channel |-> channel] ELSE cl[i]]
    ELSE Append(cl, [address |-> address, channel |-> channel])

\* new grpc.Channel(address, ...): a fresh object; id tells the objects apart.
NewChannel(address, id) == [address |-> address, id |-> id]

\* array.shift() of an empty array gives undefined, which push then stores.
UndefinedChannel == [address |-> Undefined, id |-> 0]

\* A loop that runs once too often (i <= MAX_POOL_SIZE).
initChannelPool_OffByOne(pool, address) ==
  pool \o [i \in 1..(MAX_POOL_SIZE + 1) |-> NewChannel(address, Len(pool) + i)]

\* initChannelPool(address): MAX_POOL_SIZE new channels pushed on channelPool.
initChannelPool(pool, address) ==
  pool \o [i \in 1..MAX_POOL_SIZE |-> NewChannel(address, Len(pool) + i)]

\* A selection that shifts the front channel and never pushes it back.
getPooledChannel_NoPush(pool) ==
  IF pool = <<>>
    THEN [channel |-> UndefinedChannel, pool |-> <<>>]
    ELSE [channel |-> Head(pool), pool |-> Tail(pool)]

\* getPooledChannel(): shift the front channel, push it to the back, return it.
getPooledChannel(pool) ==
  IF pool = <<>>
    THEN [channel |-> UndefinedChannel, pool |-> <<UndefinedChannel>>]
    ELSE [channel |-> Head(pool), pool |-> Append(Tail(pool), Head(pool))]

\* A connectToPeer that forgets the clients.has test.
connectToPeer_NoHasCheck(d, cl, pool, peerAddress) ==
  IF d = 2
    THEN LET got == getPooledChannel(initChannelPool(pool, peerAddress))
         IN [clients |-> MapSet(cl, peerAddress, got.channel), channelPool |-> got.pool,
             isNew |-> TRUE]
    ELSE [clients |-> MapSet(cl, peerAddress, NewChannel(peerAddress, 0)),
          channelPool |-> pool, isNew |-> TRUE]

\* connectToPeer(peerAddress): revision 2 fills the pool and builds the client
\* on the channel getPooledChannel returns; revision 3 builds the client on the
\* address itself.  The function has no await: it runs in one piece.
connectToPeer(d, cl, pool, peerAddress) ==
  IF ~Has(cl, peerAddress)
    THEN IF d = 2
      THEN LET got == getPooledChannel(initChannelPool(pool, peerAddress))
           IN [clients |-> MapSet(cl, peerAddress, got.channel),
               channelPool |-> got.pool, isNew |-> TRUE]
      ELSE [clients |-> MapSet(cl, peerAddress, NewChannel(peerAddress, 0)),
            channelPool |-> pool, isNew |-> TRUE]
    ELSE [clients |-> cl, channelPool |-> pool, isNew |-> FALSE]

ConnectLog(d, address, isNew) ==
  IF d = 2 /\ isNew
    THEN <<LogLine("Initialized gRPC channel pool", address),
           LogLine("Connected to", address)>>
    ELSE <<>>

\* ------------------------------------------------------------- dispatcher
CallIds == 1..MaxCalls

NoReply == <<>>

IdleCall ==
  [origin |-> "none", payload |-> <<>>, recipient |-> Null, type |-> Undefined,
   data |-> ObjectText(<<>>), st |-> "idle", pos |-> 0, issued |-> <<>>,
   acked |-> {}, log |-> <<>>, pending |-> {}, outcome |-> "none",
   reply |-> NoReply]

\* A selection that ignores the recipient argument.
Matches_Always(recipient, address) == TRUE

\* The test that selects the destinations: !recipient || address === recipient
Matches(recipient, address) == Falsy(recipient) \/ address = recipient

\* Position of the first entry after `from` that the loop sends to, 0 if none.
\* Map iteration is live: entries added while the loop awaits are still visited.
NextMatch(cl, recipient, from) ==
  LET js == {j \in (from + 1)..Len(cl) : Matches(recipient, cl[j].address)}
  IN IF js = {} THEN 0 ELSE CHOOSE j \in js : \A k \in js : j <= k

\* client.SendMessage({ data, recipient: address }, cb) on the entry at pos j
Issue(call, cl, j) ==
  Append(call.issued, [address |-> cl[j].address, channel |-> cl[j].channel])

\* A loop that returns after its first send.
Advance_FirstOnly(call, cl) ==
  LET j == NextMatch(cl, call.recipient, call.pos)
  IN IF j = 0 \/ call.issued # <<>>
       THEN [call EXCEPT !.st = "done", !.outcome = "resolved"]
       ELSE [call EXCEPT !.st = "awaiting", !.pos = j, !.issued = Issue(call, cl, j)]

\* Revision 2 loop, run from the entry after call.pos up to the next await
\* (a send was issued) or to the end of the Map (the promise resolves).
Advance(call, cl) ==
  LET j == NextMatch(cl, call.recipient, call.pos)
  IN IF j = 0
       THEN [call EXCEPT !.st = "done", !.outcome = "resolved"]
       ELSE [call EXCEPT !.st = "awaiting", !.pos = j, !.issued = Issue(call, cl, j)]

\* A loop without the try/catch around the awaited send.
Resume_NoCatch(call, ok, cl) ==
  LET logged == [call EXCEPT !.log = Append(@, [address |-> cl[call.pos].address,
                                                   success |-> ok])]
  IN IF ok THEN Advance(logged, cl)
     ELSE [logged EXCEPT !.st = "done", !.outcome = "rejected"]

\* Revision 2, continuation of the await: the callback resolved (ok) or
\* rejected the promise; either way the outcome is logged and the loop goes on.
Resume(call, ok, cl) ==
  Advance([call EXCEPT !.log = Append(@, [address |-> cl[call.pos].address,
                                            success |-> ok])], cl)

\* Revision 3: clients.forEach(async ...) issues every selected send at once;
\* the callbacks' promises are dropped, so the call resolves right away.
FanOut(call, cl) ==
  LET sel == SelectSeq(cl, LAMBDA e : Matches(call.recipient, e.address))
  IN [call EXCEPT !.st = "done", !.outcome = "resolved",
                  !.issued = [i \in 1..Len(sel) |->
                                [address |-> sel[i].address, channel |-> sel[i].channel]],
                  !.pending = {sel[i].address : i \in 1..Len(sel)}]

\* sendToPeers(payload, recipient = null, type = 'general'), up to its first await
sendToPeers(d, origin, payload, recipient, type, cl) ==
  LET fresh == [IdleCall EXCEPT !.origin = origin, !.payload = payload,
                                !.recipient = DefaultArg(recipient, Null),
                                !.type = type,
                                !.data = Envelope(payload, DefaultArg(type, "general"))]
  IN IF d = 2 THEN Advance(fresh, cl) ELSE FanOut(fresh, cl)

\* A handler that answers success: false as soon as one destination failed.
ipcReply_FailOnAnyError(call) ==
  IF call.origin = "ipc" /\ call.st = "done"
    THEN IF call.outcome = "resolved" /\ \A i \in 1..Len(call.log) : call.log[i].success
           THEN <<[success |-> TRUE, message |-> "Data sent"]>>
           ELSE <<[success |-> FALSE, message |-> "error"]>>
    ELSE NoReply

\* ipcMain.handle('dcf-send-to-peers'): the value the handler returns once
\* sendToPeers has settled.
ipcReply(call) ==
  IF call.origin = "ipc" /\ call.st = "done"
    THEN IF call.outcome = "resolved"
           THEN <<[success |-> TRUE, message |-> "Data sent"]>>
           ELSE <<[success |-> FALSE, message |-> "error"]>>
    ELSE NoReply

Settle(call) == [call EXCEPT !.reply = ipcReply(call)]

\* The latency of a dispatch has been taken: by monitorPerformance once its
\* awaited sendToPeers has resolved (revision 2), by sendToPeers itself right
\* after its forEach when config.metrics is set (revision 3).
LatencySampled(d, metrics, call) ==
  /\ call.st = "done"
  /\ \/ d = 2 /\ call.origin = "ping"
     \/ d = 3 /\ metrics

\* What a handler run of a call writes to the log.
CallLog(d, metrics, before, after) ==
  (IF Len(after.log) > Len(before.log)
     THEN LET e == after.log[Len(after.log)]
          IN <<LogLine(IF e.success THEN "Response from" ELSE "Send error to", e.address)>>
     ELSE <<>>)
  \o (IF LatencySampled(d, metrics, after) /\ ~LatencySampled(d, metrics, before)
        THEN <<LogLine(IF d = 2 THEN "Latency" ELSE "Send latency", "")>> ELSE <<>>)

\* ------------------------------------------------------------------ inputs
PingPayload == <<<<"test", "ping">>>>
GeminiPayload == <<<<"content", "answer">>>>
Recipients == Address \cup {Undefined, EmptyString, UnknownAddress}
\* What the renderer passes to 'dcf-send-to-peers' while the fabric runs.
IpcArgs ==
  {[payload |-> <<<<"msg", "x">>>>, recipient |-> r, type |-> Undefined] :
     r \in Recipients}
\* Payloads for the envelope: every object of at most two properties drawn
\* from these keys and values, in either property order.
PayloadKeys == {"type", "msg", "timestamp"}
PayloadValues == {"x", "remote_control", Undefined}
GenPayloads ==
  {<<>>}
  \cup {<<<<k, v>>>> : k \in PayloadKeys, v \in PayloadValues}
  \cup UNION {{<<<<k1, v1>>, <<k2, v2>>>> : k2 \in PayloadKeys \ {k1},
                                          v1 \in PayloadValues, v2 \in PayloadValues} :
               k1 \in PayloadKeys}
EnvelopeTypes == {Undefined, "test", "ai_response"}
EnvelopeArgs ==
  {[payload |-> p, recipient |-> Undefined, type |-> t] :
     p \in GenPayloads, t \in EnvelopeTypes}
Ports == {Undefined, "5000"}
Transports == {"custom_ble_transport", "grpc"}

\* ---------------------------------------------------------- fabric actions
Free(c) == calls[c].st \in {"idle", "done"} /\ calls[c].pending = {}

\* The slot a new invocation takes: the lowest one not in use.
FirstFree(c) == Free(c) /\ \A k \in CallIds : k < c => ~Free(k)

Scanning == \E b \in 1..Len(browsers) : browsers[b].scanning

\* browser.on('serviceUp', ...): the discovery callback for an announced peer.
Discover(a) ==
  /\ Scanning
  /\ LET r == connectToPeer(draft, clients, channelPool, a)
     IN /\ clients' = r.clients
        /\ channelPool' = r.channelPool
        /\ logTail' = ConnectLog(draft, a, r.isNew)
                        \o (IF draft = 2 THEN <<LogLine("Discovered peer", a)>> ELSE <<>>)
  /\ UNCHANGED <<draft, silent, startupVars, calls, errorCount, inbound>>

ServiceUp(a) == Discover(a) /\ UNCHANGED failStreak

\* The same callback, with the record of the run kept: a discovery of a ends
\* the streak of failures recorded for a.
CountedServiceUp(a) ==
  Discover(a) /\ failStreak' = [failStreak EXCEPT ![a] = 0]

StartCall(c, origin, payload, recipient, type) ==
  /\ FirstFree(c)
  /\ LET started == Settle(sendToPeers(draft, origin, payload, recipient, type, clients))
     IN /\ calls' = [calls EXCEPT ![c] = started]
        /\ logTail' = CallLog(draft, config.metrics, IdleCall, started)
  /\ UNCHANGED <<draft, silent, failStreak, startupVars, clients, channelPool, errorCount, inbound>>

\* ipcMain.handle('dcf-send-to-peers', ...) invoked by the renderer
IpcSend(c, argSet) ==
  /\ pc \in {"started", "failed"}
  /\ \E args \in argSet :
       StartCall(c, "ipc", args.payload, args.recipient, args.type)

IpcSendToPeers(c) == IpcSend(c, IpcArgs)

\* Broadcast requests over every payload of up to two properties.
IpcSendPayload(c) == IpcSend(c, EnvelopeArgs)

\* the monitorPerformance timer fires: await sendToPeers({ test: 'ping' })
PingTick(c) ==
  /\ draft = 2
  /\ perfTimers > 0
  /\ StartCall(c, "ping", PingPayload, Undefined, Undefined)

\* saveConversationTurn: sendToPeers({ content: aiResponse }, null, 'ai_response')
SaveConversationTurn(c) ==
  StartCall(c, "gemini", GeminiPayload, Null, "ai_response")

\* Revision 2: the SendMessage callback of the awaited send fires.  The call
\* is made without a deadline, so the callback fires only if the peer answers.
Answer(c, ok) ==
  /\ draft = 2
  /\ calls[c].st = "awaiting"
  /\ clients[calls[c].pos].address \notin silent
  /\ LET heard == [calls[c] EXCEPT !.acked =
                       @ \cup {[address |-> clients[calls[c].pos].address,
                                success |-> ok]}]
         after == Settle(Resume(heard, ok, clients))
     IN /\ calls' = [calls EXCEPT ![c] = after]
        /\ logTail' = CallLog(draft, config.metrics, calls[c], after)
  /\ UNCHANGED <<draft, silent, startupVars, clients, channelPool, errorCount, inbound>>

SendCallback(c) == \E ok \in BOOLEAN : Answer(c, ok) /\ UNCHANGED failStreak

\* The same callback, with the record of the run kept: a failure lengthens
\* the streak of the peer (counted up to FailureThreshold), a success ends it.
CountedCallback(c) ==
  \E ok \in BOOLEAN :
    /\ Answer(c, ok)
    /\ LET a == clients[calls[c].pos].address
           n == IF failStreak[a] < FailureThreshold THEN failStreak[a] + 1
                ELSE FailureThreshold
       IN failStreak' = [failStreak EXCEPT ![a] = IF ok THEN 0 ELSE n]

\* Revision 3: the callback of one of the dropped promises fires; a rejection
\* has no handler, and nothing is logged or counted.
SendCallback3(c) ==
  /\ draft = 3
  /\ \E a \in calls[c].pending \ silent, ok \in BOOLEAN :
       calls' = [calls EXCEPT ![c].pending = @ \ {a},
                              ![c].acked = @ \cup {[address |-> a, success |-> ok]}]
  /\ logTail' = <<>>
  /\ UNCHANGED <<draft, silent, failStreak, startupVars, clients, channelPool, errorCount, inbound>>

\* --------------------------------------------------- startup and discovery
\* Intervals a caller of discoverPeers(interval) may pass.
Intervals == {3000, DEFAULT_INTERVAL}

\* mdns.createBrowser(...) and the setInterval of discoverPeers(interval):
\* the browser is not started yet and no stop timeout is outstanding.
NewBrowser(interval) == [scanning |-> FALSE, pendingStops |-> 0, interval |-> interval]

\* A scan window that outlasts any interval.
StopsOutstanding_LongWindow(interval) == 2

\* How many stop timeouts can be outstanding when the interval fires: each
\* tick arms one that fires SCAN_WINDOW later, so those of the ticks of the
\* last SCAN_WINDOW milliseconds, this tick included.
StopsOutstanding(interval) == (SCAN_WINDOW + interval - 1) \div interval

\* validateConfig(): throws when config.port is missing (falsy).
validateConfig(cfg) == ~Falsy(cfg.port)

\* Loading networking.js (require in main.js): the configuration is read and,
\* when it names the BLE plugin, CustomBLETransport.setup() installs its two
\* noble listeners ('stateChange' and 'discover') right away.
ModuleLoad ==
  /\ pc = "init"
  /\ pc' = "loaded"
  /\ bleListeners' = IF config.transport = "custom_ble_transport"
                       THEN bleListeners + 2 ELSE bleListeners
  /\ logTail' = <<>>
  /\ UNCHANGED <<draft, silent, failStreak, config, server, browsers, ads, perfTimers, fabricVars,
                 errorCount, inbound>>

\* app.whenReady().then(...): validateConfig, startDCFServices, discoverPeers,
\* monitorPerformance, in that order; a throw ends the callback.
Startup ==
  /\ pc = "loaded"
  /\ IF validateConfig(config)
       THEN /\ pc' = "started"
            /\ server' = "binding"
            /\ browsers' = Append(browsers, NewBrowser(DEFAULT_INTERVAL))
            /\ ads' = ads + 1
            /\ perfTimers' = perfTimers + 1
            /\ logTail' = <<LogLine("Config validated", "")>>
       ELSE /\ pc' = "failed"
            /\ logTail' = <<>>
            /\ UNCHANGED <<server, browsers, ads, perfTimers>>
  /\ UNCHANGED <<draft, silent, failStreak, config, bleListeners, fabricVars, errorCount, inbound>>

\* The bindAsync callback: server.start().
BindDone ==
  /\ server = "binding"
  /\ server' = "listening"
  /\ logTail' = <<LogLine("DCF server on", config.port)>>
  /\ UNCHANGED <<draft, silent, failStreak, config, pc, bleListeners, browsers, ads, perfTimers,
                 fabricVars, errorCount, inbound>>

\* ipcMain.handle('dcf-discover-peers'): discoverPeers() once more.  With no
\* port, whether mdns.createAdvertisement accepts the undefined port is the
\* library's business: the advertisement starts or the call throws there,
\* after the browser and its interval timer exist.
IpcDiscoverPeers ==
  /\ pc \in {"started", "failed"}
  /\ Len(browsers) < MaxBrowsers
  /\ browsers' = Append(browsers, NewBrowser(DEFAULT_INTERVAL))
  /\ \/ ads' = ads + 1
     \/ Falsy(config.port) /\ ads' = ads
  /\ logTail' = <<>>
  /\ UNCHANGED <<draft, silent, failStreak, config, pc, server, bleListeners, perfTimers, fabricVars,
                 errorCount, inbound>>

\* The host calls the exported discoverPeers(interval) with an interval of
\* its own.
HostDiscoverPeers ==
  /\ pc \in {"started", "failed"}
  /\ Len(browsers) < MaxBrowsers
  /\ \E interval \in Intervals :
       browsers' = Append(browsers, NewBrowser(interval))
  /\ \/ ads' = ads + 1
     \/ Falsy(config.port) /\ ads' = ads
  /\ logTail' = <<>>
  /\ UNCHANGED <<draft, silent, failStreak, config, pc, server, bleListeners, perfTimers, fabricVars,
                 errorCount, inbound>>

\* The scan interval of browser b fires: browser.start() and a 5 s timeout for
\* browser.stop().  With the default interval of 30 s the previous window has
\* been closed by then; with an interval below the window it has not.
ScanTick(b) ==
  /\ b \in 1..Len(browsers)
  /\ browsers[b].pendingStops < StopsOutstanding(browsers[b].interval)
  /\ browsers' = [browsers EXCEPT ![b].scanning = TRUE, ![b].pendingStops = @ + 1]
  /\ logTail' = <<>>
  /\ UNCHANGED <<draft, silent, failStreak, config, pc, server, bleListeners, ads, perfTimers,
                 fabricVars, errorCount, inbound>>

\* The 5 s timeout fires: browser.stop().
ScanStop(b) ==
  /\ b \in 1..Len(browsers)
  /\ browsers[b].pendingStops > 0
  /\ browsers' = [browsers EXCEPT ![b].scanning = FALSE, ![b].pendingStops = @ - 1]
  /\ logTail' = <<>>
  /\ UNCHANGED <<draft, silent, failStreak, config, pc, server, bleListeners, ads, perfTimers,
                 fabricVars, errorCount, inbound>>

\* ------------------------------------------------------------ inbound router
RecognizedTypes == {"ai_response", "sync_history", "remote_control"}

\* The switch on data.type of revision 2: the collaborator operation a
\* message reaches, "none" when no case applies.
DomainHandler(obj) ==
  LET type == Get(obj, "type")
  IN IF type = "ai_response" THEN "display-on-glasses"
     ELSE IF type = "sync_history" THEN "saveConversationSession"
     ELSE IF type = "remote_control" /\ Get(obj, "command") = "screenshot"
       THEN "captureManualScreenshot"
     ELSE "none"

\* A router that treats a type without a case as a failure.
SendMessageHandler_StrictDefault(d, text, handlerThrows) ==
  LET parsed == JSONparse(text)
  IN IF d = 2 /\ ~parsed.threw /\ ~parsed.isNull
          /\ Get(parsed.obj, "type") \notin RecognizedTypes
       THEN [handler |-> "none", ack |-> "INTERNAL", errors |-> 1,
             callbacks |-> 1, escaped |-> FALSE]
       ELSE [handler |-> "none", ack |-> "Acknowledged", errors |-> 0,
             callbacks |-> 1, escaped |-> FALSE]

\* The SendMessage service handler.  Revision 2 parses msg.data and switches
\* on the type; an exception (JSON.parse, data.type of null, a collaborator
\* that throws) leaves the handler before callback is called.  Revision 3 only
\* logs and acknowledges.  callbacks counts the calls of callback, escaped
\* tells whether an exception left the handler.
SendMessageHandler(d, text, handlerThrows) ==
  IF d = 2
    THEN LET parsed == JSONparse(text)
         IN IF parsed.threw \/ parsed.isNull
              THEN [handler |-> "none", ack |-> "none", errors |-> 0,
                    callbacks |-> 0, escaped |-> TRUE]
              ELSE LET h == DomainHandler(parsed.obj)
                   IN IF h # "none" /\ handlerThrows
                        THEN [handler |-> h, ack |-> "none", errors |-> 0,
                              callbacks |-> 0, escaped |-> TRUE]
                        ELSE [handler |-> h, ack |-> "Acknowledged", errors |-> 0,
                              callbacks |-> 1, escaped |-> FALSE]
    ELSE [handler |-> "none", ack |-> "Acknowledged", errors |-> 0,
          callbacks |-> 1, escaped |-> FALSE]

InboundTexts ==
  { Envelope(GeminiPayload, "ai_response"),
    Envelope(<<<<"history", "h">>>>, "sync_history"),
    Envelope(<<<<"command", "screenshot">>>>, "remote_control"),
    Envelope(<<<<"command", "reboot">>>>, "remote_control"),
    Envelope(PingPayload, "general"),
    Envelope(<<<<"msg", "x">>>>, "test"),
    ObjectText(<<<<"msg", "x">>>>),
    NullText,
    MalformedText }

\* A peer calls SendMessage on this node's server.
ReceiveMessage ==
  /\ server = "listening"
  /\ Len(inbound) < MaxInbound
  /\ \E text \in InboundTexts, handlerThrows \in BOOLEAN :
       LET r == SendMessageHandler(draft, text, handlerThrows)
       IN /\ inbound' = Append(inbound, [data |-> text, handler |-> r.handler,
                                         ack |-> r.ack, callbacks |-> r.callbacks,
                                         escaped |-> r.escaped])
          /\ errorCount' = errorCount + r.errors
          /\ logTail' = <<LogLine("Received", "")>>
  /\ UNCHANGED <<draft, silent, failStreak, startupVars, fabricVars>>

\* ---------------------------------------------------------- specifications
TypeOK ==
  /\ draft \in {2, 3}
  /\ silent \subseteq Address
  /\ failStreak \in [Address -> 0..FailureThreshold]
  /\ config \in [port : Ports, transport : Transports, metrics : BOOLEAN]
  /\ pc \in {"init", "loaded", "started", "failed"}
  /\ server \in {"null", "binding", "listening"}
  /\ bleListeners \in Nat
  /\ ads \in Nat
  /\ perfTimers \in Nat
  /\ errorCount \in Nat
  /\ Len(browsers) <= MaxBrowsers
  /\ Len(inbound) <= MaxInbound
  /\ DOMAIN calls = CallIds

InitCommon ==
  /\ clients = <<>>
  /\ channelPool = <<>>
  /\ calls = [c \in CallIds |-> IdleCall]
  /\ logTail = <<>>
  /\ errorCount = 0
  /\ inbound = <<>>
  /\ failStreak = [a \in Address |-> 0]

\* The process before networking.js is loaded; main.js runs revision 2.
InitStartup ==
  /\ draft = 2
  /\ silent = {}
  /\ config \in [port : Ports, transport : Transports, metrics : {FALSE}]
  /\ pc = "init"
  /\ server = "null"
  /\ bleListeners = 0
  /\ browsers = <<>>
  /\ ads = 0
  /\ perfTimers = 0
  /\ InitCommon

NextStartup ==
  \/ ModuleLoad
  \/ Startup
  \/ BindDone
  \/ IpcDiscoverPeers
  \/ HostDiscoverPeers
  \/ \E b \in 1..Len(browsers) : ScanTick(b)
  \/ \E b \in 1..Len(browsers) : ScanStop(b)
  \/ \E a \in Address : ServiceUp(a)

SpecStartup == InitStartup /\ [][NextStartup]_vars

\* Timers fire: a stop timeout that is due is run by the event loop.
SpecScan ==
  SpecStartup /\ \A b \in 1..MaxBrowsers : WF_vars(ScanStop(b))

\* dcf-config.json of a fabric in service.  Only revision 3 reads
\* config.metrics.
RunningConfigs(d) ==
  {[port |-> "5000", transport |-> "grpc", metrics |-> m] :
     m \in IF d = 3 THEN BOOLEAN ELSE {FALSE}}

\* The fabric in service: a valid configuration, the services started, the
\* server bound and a browser in its scan window (Startup, BindDone and
\* ScanTick have run).  Revision 3 has no monitorPerformance, so no ping timer.
Running(quiet) ==
  /\ draft \in {2, 3}
  /\ silent = quiet
  /\ config \in RunningConfigs(draft)
  /\ pc = "started"
  /\ server = "listening"
  /\ bleListeners = 0
  /\ browsers = <<[scanning |-> TRUE, pendingStops |-> 1,
                   interval |-> DEFAULT_INTERVAL]>>
  /\ ads = 1
  /\ perfTimers = IF draft = 2 THEN 1 ELSE 0
  /\ InitCommon

\* Every peer answers the calls made on it.
InitRunning == Running({})

\* Some peers accept SendMessage calls and never answer them.
InitSilent == \E quiet \in SUBSET Address : Running(quiet)

Next ==
  \/ \E a \in Address : ServiceUp(a)
  \/ \E c \in CallIds : IpcSendToPeers(c)
  \/ \E c \in CallIds : PingTick(c)
  \/ \E c \in CallIds : SaveConversationTurn(c)
  \/ \E c \in CallIds : SendCallback(c)
  \/ \E c \in CallIds : SendCallback3(c)

Spec == InitRunning /\ [][Next]_vars

SpecSilent == InitSilent /\ [][Next]_vars

\* Revision 2 under the periodic ping, with the failures of every peer on
\* record.
InitEviction == InitRunning /\ draft = 2

NextEviction ==
  \/ \E a \in Address : CountedServiceUp(a)
  \/ \E c \in CallIds : PingTick(c)
  \/ \E c \in CallIds : CountedCallback(c)

SpecEviction == InitEviction /\ [][NextEviction]_vars

\* The fabric after the discovery of two peers, for the envelope's inputs.
InitTwoPeers ==
  /\ draft \in {2, 3}
  /\ silent = {}
  /\ config \in RunningConfigs(draft)
  /\ pc = "started"
  /\ server = "listening"
  /\ bleListeners = 0
  /\ browsers = <<[scanning |-> TRUE, pendingStops |-> 1,
                   interval |-> DEFAULT_INTERVAL]>>
  /\ ads = 1
  /\ perfTimers = IF draft = 2 THEN 1 ELSE 0
  /\ LET r1 == connectToPeer(draft, <<>>, <<>>, AddressNames[1])
         r2 == connectToPeer(draft, r1.clients, r1.channelPool, AddressNames[2])
     IN clients = r2.clients /\ channelPool = r2.channelPool
  /\ calls = [c \in CallIds |-> IdleCall]
  /\ logTail = <<>>
  /\ errorCount = 0
  /\ inbound = <<>>
  /\ failStreak = [a \in Address |-> 0]

NextEnvelope ==
  \/ \E c \in CallIds : IpcSendPayload(c)
  \/ \E c \in CallIds : SendCallback(c)
  \/ \E c \in CallIds : SendCallback3(c)

SpecEnvelope == InitTwoPeers /\ [][NextEnvelope]_vars

NextRouter == ReceiveMessage

SpecRouter == InitRunning /\ [][NextRouter]_vars

\* ------------------------------------------------------------------ claims
Addresses(cl) == {cl[i].address : i \in 1..Len(cl)}

IssuedTo(call) == {call.issued[i].address : i \in 1..Len(call.issued)}

\* Channels of the pool that were created for address a
ChannelsFor(pool, a) == Cardinality({i \in 1..Len(pool) : pool[i].address = a})

\* The step in which invocation c of sendToPeers settles: its last callback
\* continuation, or the very step that started it.
Completes(c) ==
  /\ calls'[c].st = "done"
  /\ \/ calls[c].st = "awaiting"
     \/ Free(c) /\ calls'[c] # calls[c]

\* C1: the registry holds at most one entry per address, and once an address
\* is registered a further registration neither replaces its client nor
\* creates channels for it again.
C1_IdempotentRegistry ==
  /\ [](\A i, j \in 1..Len(clients) : clients[i].address = clients[j].address => i = j)
  /\ [][\A a \in Address :
          Has(clients, a) =>
            /\ Has(clients', a)
            /\ ClientOf(clients', a) = ClientOf(clients, a)
            /\ ChannelsFor(channelPool', a) = ChannelsFor(channelPool, a)
            /\ Len(clients') >= Len(clients)]_vars

\* A second serviceUp for a registered address has been handled (revision 2
\* then logs the discovery alone).
C1_Witness ==
  \E a \in Address :
    /\ draft = 2
    /\ Has(clients, a)
    /\ logTail = <<LogLine("Discovered peer", a)>>

\* C2 (as claimed): the pool that serves a peer, channelPool, never holds more
\* than MAX_POOL_SIZE channels.
C2_PoolBounded ==
  /\ Len(channelPool) >= 0
  /\ Len(channelPool) <= MAX_POOL_SIZE

\* C3 (as claimed): every send takes the channel at the front of the pool and
\* moves it to the back.
C3_SendRotates ==
  [][\A c \in CallIds :
       (draft = 2 /\ Len(calls'[c].issued) > Len(calls[c].issued)) =>
         /\ calls'[c].issued[Len(calls'[c].issued)].channel = Head(channelPool)
         /\ channelPool' = getPooledChannel(channelPool).pool]_vars

\* C4: a broadcast settles resolved, never rejected, and by then a send has
\* been issued to every registered peer, whichever callbacks reported errors.
C4_FailureIsolation ==
  [][\A c \in CallIds :
       (Completes(c) /\ Falsy(calls'[c].recipient)) =>
         /\ calls'[c].outcome = "resolved"
         /\ IssuedTo(calls'[c]) = Addresses(clients')
         /\ Len(calls'[c].issued) = Len(clients')]_vars

\* A revision-2 broadcast to two or more peers has settled although the first
\* peer's callback reported an error.
C4_Witness ==
  \E c \in CallIds :
    /\ draft = 2
    /\ calls[c].st = "done"
    /\ Falsy(calls[c].recipient)
    /\ Len(calls[c].issued) >= 2
    /\ calls[c].log[1].success = FALSE

\* A recipient argument was passed (anything but undefined or null).
Given(recipient) == recipient \notin {Undefined, Null}

\* Every send of the call has had its callback, exactly one with an error.
HeardOneFailure(call) ==
  /\ call.st = "done"
  /\ call.pending = {}
  /\ call.issued # <<>>
  /\ {e.address : e \in call.acked} = IssuedTo(call)
  /\ Cardinality({e \in call.acked : ~e.success}) = 1

AckOf(call, a) == (CHOOSE e \in call.acked : e.address = a).success

C7_EnvelopeType ==
  \A c \in CallIds :
    Len(calls[c].issued) = 2 =>
      LET env == JSONparse(calls[c].data)
      IN /\ ~env.threw
         /\ Get(env.obj, "type") = DefaultArg(calls[c].type, "general")

\* C8: with a registered recipient exactly one send is issued, to that peer;
\* with no recipient a send is issued to every registered peer, once each.
C8_Destinations ==
  [][\A c \in CallIds :
       Completes(c) =>
         /\ (Given(calls'[c].recipient) /\ calls'[c].recipient \in Addresses(clients')) =>
              /\ Len(calls'[c].issued) = 1
              /\ calls'[c].issued[1].address = calls'[c].recipient
         /\ ~Given(calls'[c].recipient) =>
              /\ IssuedTo(calls'[c]) = Addresses(clients')
              /\ Len(calls'[c].issued) = Len(clients')]_vars

\* A send addressed to one of two registered peers has settled.
C8_Witness ==
  \E c \in CallIds :
    /\ calls[c].st = "done"
    /\ Len(clients) >= 2
    /\ calls[c].recipient \in Addresses(clients)
    /\ Len(calls[c].issued) = 1

\* The text parses to an envelope whose type has no case in the router.
Unrecognized(text) ==
  LET parsed == JSONparse(text)
  IN ~parsed.threw /\ ~parsed.isNull /\ Get(parsed.obj, "type") \notin RecognizedTypes

\* C9: a message of an unrecognized type is acknowledged with 'Acknowledged',
\* reaches no domain handler and leaves errorCount as it was.
C9_UnknownTypeAcknowledged ==
  [][(Len(inbound') > Len(inbound) /\ Unrecognized(inbound'[Len(inbound')].data)) =>
       /\ inbound'[Len(inbound')].ack = "Acknowledged"
       /\ inbound'[Len(inbound')].handler = "none"
       /\ errorCount' = errorCount]_vars

\* Revision 2 has handled a message of type 'test'.
C9_Witness ==
  \E i \in 1..Len(inbound) :
    /\ draft = 2
    /\ inbound[i].data = Envelope(<<<<"msg", "x">>>>, "test")
    /\ inbound[i].ack = "Acknowledged"

\* C10 (as claimed): when validateConfig has failed for a missing port, no
\* server, browser, advertisement, BLE listener or ping timer exists.
C10_NothingStartsWithoutPort ==
  pc = "failed" =>
    /\ server = "null"
    /\ browsers = <<>>
    /\ ads = 0
    /\ perfTimers = 0
    /\ bleListeners = 0

\* C11 (as claimed): for every inbound message the router calls the
\* acknowledgement callback exactly once, with 'Acknowledged' or a structured
\* failure, and no exception leaves the handler.
C11_AcknowledgedExactlyOnce ==
  \A i \in 1..Len(inbound) :
    /\ inbound[i].callbacks = 1
    /\ inbound[i].ack \in {"Acknowledged", "INTERNAL"}
    /\ ~inbound[i].escaped

\* C12 (as claimed): the channel a peer's client was built on was created for
\* that peer's own address.
C12_PoolPrivateToPeer ==
  \A i \in 1..Len(clients) :
    draft = 2 => clients[i].channel.address = clients[i].address

\* C13 (as claimed): the error counter never decreases, and a per-peer send
\* whose SendMessage callback reports an error increments errorCount by one.
C13_SendErrorCounted ==
  [][/\ errorCount' >= errorCount
     /\ \A c \in CallIds : \A a \in Address :
          (/\ draft = 3
           /\ [address |-> a, success |-> FALSE] \in calls'[c].acked \ calls[c].acked)
          => errorCount' = errorCount + 1]_vars

\* The sends of a dispatch whose SendMessage callback has not fired yet.
InFlight(call) ==
  call.pending
  \cup (IF call.st = "awaiting" THEN {call.issued[Len(call.issued)].address} ELSE {})

\* C14 (as claimed): sendToPeers resolves, and the latency of a dispatch is
\* taken, only after the callback of every send of that dispatch has fired.
C14_LatencyAfterLastCompletion ==
  \A c \in CallIds :
    (calls[c].st = "done" \/ LatencySampled(draft, config.metrics, calls[c]))
    => InFlight(calls[c]) = {}

\* C15 (as claimed): a send never hangs its caller; a call that waits for a
\* peer's answer can always go on, whether or not that peer ever answers.
C15_SendNeverHangs ==
  \A c \in CallIds : calls[c].st = "awaiting" => ENABLED SendCallback(c)

\* browser.start() resp. browser.stop() is invoked on browser b in this step.
StartInvoked(b) ==
  /\ b \in 1..Len(browsers)
  /\ browsers'[b].pendingStops = browsers[b].pendingStops + 1

StopInvoked(b) ==
  /\ b \in 1..Len(browsers)
  /\ browsers'[b].pendingStops = browsers[b].pendingStops - 1

C17_AdvertiseStartsOnce ==
  Len(browsers) <= 1 /\ ads <= 1

\* A send to address a is issued by call c in this step.
SendIssued(c, a) ==
  /\ calls'[c].issued # <<>>
  /\ calls'[c].issued # calls[c].issued
  /\ calls'[c].issued[Len(calls'[c].issued)].address = a

Members(pool) == {pool[i] : i \in 1..Len(pool)}

NoDuplicates(pool) ==
  \A i, j \in 1..Len(pool) : pool[i] = pool[j] => i = j

C20_PoolSizeTracksClients ==
  draft = 2
  => /\ Len(channelPool) = MAX_POOL_SIZE * Len(clients)
     /\ channelPool # <<>>
        => LET rotated == getPooledChannel(channelPool).pool
           IN /\ Len(rotated) = Len(channelPool)
              /\ Members(rotated) = Members(channelPool)

\* Two peers are registered and the pool has been rotated twice.
C20_Witness ==
  /\ draft = 2
  /\ Len(clients) = 2
  /\ Len(channelPool) = 2 * MAX_POOL_SIZE
  /\ channelPool[Len(channelPool)] = clients[2].channel

====
